---- MODULE Spec2Model ----
(***************************************************************************)
(* A model of simple_wave.h: the RIFF/WAVE buffer parser, the two stream   *)
(* loaders, the release operation and the sample-count accessor.           *)
(*                                                                         *)
(* Memory is a sequence of bytes (0..255).  A 32-bit field is kept as the  *)
(* pair of its two 16-bit halves, [hi, lo], so that the full 32-bit range  *)
(* (0xFFFFFFFF included) and 64-bit sums of such fields are computed       *)
(* exactly.  Pointers into the parsed block are byte offsets from its      *)
(* start.                                                                  *)
(***************************************************************************)
EXTENDS Integers, Sequences, FiniteSets, TLC

\* ------------------------------------------------------------------ bounds
\* Most chunks in a generated file.
MaxChunks == 3
\* How far the size argument may exceed the bytes the stream really holds.
SizeSlack == 8
\* How far the RIFF header's size field may exceed the real file.
RiffExtra == 8

\* ------------------------------------------------- program constants
\* sizeof(RIFF_HEADER), sizeof(RIFF_CHUNK), sizeof(WAVE_FORMAT) under pack(1)
SizeofRiffHeader == 12
SizeofRiffChunk == 8
SizeofWaveFormat == 16
WAVE_FORMAT_TAG_PCM == 1
WAVE_FORMAT_TAG_IEEE_FLOAT == 3

\* ------------------------------------------------- exact wide arithmetic
Half == 256 * 256

Big(n) == [hi |-> n \div Half, lo |-> n % Half]

BigAdd(a, b) ==
    LET l == a.lo + b.lo
    IN  [hi |-> a.hi + b.hi + (l \div Half), lo |-> l % Half]

BigLt(a, b) == a.hi < b.hi \/ (a.hi = b.hi /\ a.lo < b.lo)

BigLeq(a, b) == ~BigLt(b, a)

\* unsigned 32-bit wrap-around of a wider value
Wrap32(a) == [hi |-> a.hi % Half, lo |-> a.lo]

\* x & ~1 on a 32-bit value
AndNot1(a) == [hi |-> a.hi, lo |-> a.lo - (a.lo % 2)]

BigMulSmall(a, k) ==
    LET l == a.lo * k
    IN  [hi |-> a.hi * k + (l \div Half), lo |-> l % Half]

\* a / k and a % k on an unsigned value, k a small positive integer
BigDivSmall(a, k) ==
    [hi |-> a.hi \div k, lo |-> ((a.hi % k) * Half + a.lo) \div k]

BigModSmall(a, k) == ((a.hi % k) * Half + a.lo) % k

\* the value as an ordinary integer, for values known to be small
Small(a) == a.hi * Half + a.lo

\* conversion of an unsigned value below 2^32 to a 32-bit int (the value
\* modulo 2^32, as two's complement)
ToInt32(a) ==
    IF a.hi >= Half \div 2 THEN (a.hi - Half) * Half + a.lo ELSE Small(a)

Min(a, b) == IF a < b THEN a ELSE b
Max(a, b) == IF a > b THEN a ELSE b

\* ------------------------------------------------------- bytes and tags
\* RIFF_CODE(a, b, c, d): the little-endian 32-bit tag
RIFF_CODE(a, b, c, d) == [hi |-> c + 256 * d, lo |-> a + 256 * b]

TagRIFF == RIFF_CODE(82, 73, 70, 70)
TagWAVE == RIFF_CODE(87, 65, 86, 69)
WAVE_CHUNK_FORMAT == RIFF_CODE(102, 109, 116, 32)
WAVE_CHUNK_DATA == RIFF_CODE(100, 97, 116, 97)

\* the four bytes of a 32-bit value, little-endian
LE32(v) == << v.lo % 256, v.lo \div 256, v.hi % 256, v.hi \div 256 >>

\* What uninitialised or adjacent memory holds: one of two patterns.
Garbage == {"zero", "x20"}

GByte(g, off) == IF g = "x20" /\ off % 2 = 0 THEN 32 ELSE 0

\* the byte at offset off of a block whose initialised prefix is m
Rd(m, g, off) == IF off < Len(m) THEN m[off + 1] ELSE GByte(g, off)

RdU16(m, g, off) == Rd(m, g, off) + 256 * Rd(m, g, off + 1)

RdU32(m, g, off) == [hi |-> RdU16(m, g, off + 2), lo |-> RdU16(m, g, off)]

\* ------------------------------------------------------ generated files
\* a WAVE_FORMAT payload: format_tag, channels = 1, samples_per_sec = 8000,
\* avg_bytes_per_sec = 8000, block_align = 1, bits_per_sample
FormatBytes(tag, bits) ==
    << tag, 0, 1, 0, 64, 31, 0, 0, 64, 31, 0, 0, 1, 0, bits, 0 >>

TagLIST == RIFF_CODE(76, 73, 83, 84)
TagRIFX == RIFF_CODE(82, 73, 70, 88)
TagAVI == RIFF_CODE(65, 86, 73, 32)

AllOnes == [hi |-> Half - 1, lo |-> Half - 1]
MinusEight == [hi |-> Half - 1, lo |-> Half - 8]

\* The chunks a generated file is made of: id, the size field, and the
\* payload bytes really present (with the pad byte when the size is odd).
ChunkMenu ==
    { [id |-> WAVE_CHUNK_FORMAT, size |-> Big(16), payload |-> FormatBytes(1, 8)],
      [id |-> WAVE_CHUNK_FORMAT, size |-> Big(16), payload |-> FormatBytes(1, 24)],
      [id |-> WAVE_CHUNK_FORMAT, size |-> Big(16), payload |-> FormatBytes(2, 16)],
      [id |-> WAVE_CHUNK_FORMAT, size |-> Big(18),
       payload |-> FormatBytes(3, 32) \o << 0, 0 >>],
      [id |-> WAVE_CHUNK_FORMAT, size |-> Big(2), payload |-> << 3, 0 >>],
      [id |-> WAVE_CHUNK_DATA, size |-> Big(4), payload |-> << 1, 2, 3, 4 >>],
      [id |-> WAVE_CHUNK_DATA, size |-> Big(3), payload |-> << 128, 128, 128, 0 >>],
      [id |-> WAVE_CHUNK_DATA, size |-> AllOnes, payload |-> << >>],
      [id |-> TagLIST, size |-> Big(0), payload |-> << >>],
      [id |-> TagLIST, size |-> MinusEight, payload |-> << >>] }

ChunkBytes(c) == LE32(c.id) \o LE32(c.size) \o c.payload

RECURSIVE Flatten(_)
Flatten(cs) ==
    IF cs = << >> THEN << >> ELSE ChunkBytes(Head(cs)) \o Flatten(Tail(cs))

HeaderBytes(riff, sz, type) == LE32(riff) \o LE32(sz) \o LE32(type)

\* a whole file: the RIFF header, its size field counting everything after
\* the first 8 bytes plus `extra`, and the chunks
FileBytes(riff, type, extra, cs) ==
    LET body == Flatten(cs)
    IN  HeaderBytes(riff, Big(Len(body) + 4 + extra), type) \o body

ChunkLists == UNION { [1..n -> ChunkMenu] : n \in 0..MaxChunks }

\* well-formed envelopes around every chunk list
RegularFiles == { FileBytes(TagRIFF, TagWAVE, 0, cs) : cs \in ChunkLists }

CanonicalChunks ==
    << [id |-> WAVE_CHUNK_FORMAT, size |-> Big(16), payload |-> FormatBytes(1, 16)],
       [id |-> WAVE_CHUNK_DATA, size |-> Big(4), payload |-> << 1, 2, 3, 4 >>] >>

\* one canonical body under every envelope, whole or cut short
EnvelopeFiles ==
    { SubSeq(FileBytes(r, t, x, CanonicalChunks), 1, cut) :
        r \in {TagRIFF, TagRIFX}, t \in {TagWAVE, TagAVI},
        x \in {0, RiffExtra}, cut \in {0, 4, 11, 12, 40, 48} }

InputFiles == RegularFiles \cup EnvelopeFiles

\* ----------------------------------------------------------- the WAVE
NullPtr == [valid |-> FALSE, off |-> 0]
Ptr(o) == [valid |-> TRUE, off |-> o]

\* memset(out_wave, 0, sizeof(WAVE))
ZeroWave ==
    [ free_ptr |-> 0, free_ptr_size |-> 0,
      header |-> NullPtr,
      format_chunk |-> NullPtr, format_chunk_offset |-> 0,
      data_chunk |-> NullPtr, data_chunk_offset |-> 0,
      sample_data |-> NullPtr, sample_data_size |-> Big(0),
      sample_data_offset |-> 0,
      format |-> NullPtr ]

\* ------------------------------------------------------- the validators
Wave_ValidateHeader(riff_id, filetype_id) ==
    IF riff_id # TagRIFF THEN 0
    ELSE IF filetype_id # TagWAVE THEN 0
    ELSE 1

\* Wave_ValidateFormat without the check of the PCM bit depths
ValidateFormatAnyPcmDepth(hasFormat, format_tag, bits_per_sample) ==
    IF ~hasFormat THEN 0
    ELSE IF format_tag # WAVE_FORMAT_TAG_PCM /\ format_tag # WAVE_FORMAT_TAG_IEEE_FLOAT
         THEN 0
    ELSE IF format_tag = WAVE_FORMAT_TAG_IEEE_FLOAT /\ bits_per_sample # 32
            /\ bits_per_sample # 64
         THEN 0
    ELSE 1

\* hasFormat: out_wave->format is non-null
Wave_ValidateFormat(hasFormat, format_tag, bits_per_sample) ==
    IF ~hasFormat THEN 0
    ELSE IF format_tag # WAVE_FORMAT_TAG_PCM /\ format_tag # WAVE_FORMAT_TAG_IEEE_FLOAT
         THEN 0
    ELSE IF format_tag = WAVE_FORMAT_TAG_PCM /\ bits_per_sample # 8
            /\ bits_per_sample # 16 /\ bits_per_sample # 32
         THEN 0
    ELSE IF format_tag = WAVE_FORMAT_TAG_IEEE_FLOAT /\ bits_per_sample # 32
            /\ bits_per_sample # 64
         THEN 0
    ELSE 1

\* one past the last byte Wave_ValidateFormat reads of a format at offset f:
\* format_tag always, bits_per_sample once the tag is a known one
FormatReadEnd(m, g, f) ==
    LET tag == RdU16(m, g, f)
    IN  IF tag # WAVE_FORMAT_TAG_PCM /\ tag # WAVE_FORMAT_TAG_IEEE_FLOAT
        THEN f + 2 ELSE f + 16

\* one past the last byte Wave_ValidateHeader reads of a header at offset 0
HeaderReadEnd(m, g) == IF RdU32(m, g, 0) # TagRIFF THEN 4 ELSE 12

\* the format fields behind a WAVE's format pointer
FormatTag(m, g, w) == RdU16(m, g, w.format.off)
BitsPerSample(m, g, w) == RdU16(m, g, w.format.off + 14)

\* --------------------------------------------------- Wave_ParseBuffer
\* the cursor advance of the chunk walker for a size field s:
\* sizeof(RIFF_CHUNK) + ((chunk->size + 1) & ~1), the inner sum and mask in
\* 32-bit unsigned arithmetic, the outer sum in size_t
ChunkAdvance(s) ==
    BigAdd(Big(SizeofRiffChunk), AndNot1(Wrap32(BigAdd(s, Big(1)))))

\* the switch of the loop body on the chunk at offset o: the chunk pointers
\* found so far, the read extent and the list of chunk headers visited
VisitChunk(st, o, at, id, sz) ==
    [ format_chunk |-> IF id = WAVE_CHUNK_FORMAT THEN Ptr(o) ELSE st.format_chunk,
      data_chunk |-> IF id = WAVE_CHUNK_DATA THEN Ptr(o) ELSE st.data_chunk,
      rdEnd |-> Max(st.rdEnd, o + SizeofRiffChunk),
      trace |-> Append(st.trace, [at |-> at, size |-> sz]),
      cursor |-> st.cursor ]

\* the while loop
RECURSIVE WalkChunks(_, _, _, _, _)
WalkChunks(m, g, at, max, st) ==
    IF ~BigLt(at, max) THEN [st EXCEPT !.cursor = at]
    ELSE WalkChunks(m, g,
                    BigAdd(at, ChunkAdvance(RdU32(m, g, Small(at) + 4))),
                    max,
                    VisitChunk(st, Small(at), at, RdU32(m, g, Small(at)),
                               RdU32(m, g, Small(at) + 4)))

\* the result of a call: return value, the WAVE, and what the walk did
ParseResult(r, w, rd, st) ==
    [ret |-> r, wave |-> w, rdEnd |-> rd, trace |-> st.trace, cursor |-> st.cursor]

NoWalk == [trace |-> << >>, cursor |-> Big(0)]

\* "Get sample data": the fields set when a data chunk was found
WithSampleData(m, g, w) ==
    IF w.data_chunk.valid
    THEN [w EXCEPT !.sample_data = Ptr(w.data_chunk.off + SizeofRiffChunk),
                   !.sample_data_size = RdU32(m, g, w.data_chunk.off + 4),
                   !.sample_data_offset = w.data_chunk.off + SizeofRiffChunk]
    ELSE w

\* "Get format" and the rest of the function, after the loop ended in st
AfterWalk(m, g, st) ==
    IF ~st.format_chunk.valid
    THEN ParseResult(0,
            [ZeroWave EXCEPT !.header = Ptr(0),
                             !.data_chunk = st.data_chunk,
                             !.data_chunk_offset = st.data_chunk.off],
            st.rdEnd, st)
    ELSE ParseResult(
            Wave_ValidateFormat(TRUE,
                RdU16(m, g, st.format_chunk.off + SizeofRiffChunk),
                RdU16(m, g, st.format_chunk.off + SizeofRiffChunk + 14)),
            WithSampleData(m, g,
                [ZeroWave EXCEPT
                    !.header = Ptr(0),
                    !.format_chunk = st.format_chunk,
                    !.format_chunk_offset = st.format_chunk.off,
                    !.data_chunk = st.data_chunk,
                    !.data_chunk_offset = st.data_chunk.off,
                    !.format = Ptr(st.format_chunk.off + SizeofRiffChunk)]),
            Max(st.rdEnd, FormatReadEnd(m, g, st.format_chunk.off + SizeofRiffChunk)),
            st)

\* The whole of Wave_ParseBuffer on the block (m, g) with the given size
\* argument.  buffOk / waveOk: the pointer arguments are non-null.  The loop
\* runs from at = header + 1 to max = at + header->size - 4.
Wave_ParseBuffer(buffOk, m, g, size, waveOk, w0) ==
    IF ~buffOk \/ size = 0 \/ ~waveOk
    THEN ParseResult(0, w0, 0, NoWalk)
    ELSE IF Wave_ValidateHeader(RdU32(m, g, 0), RdU32(m, g, 8)) = 0
    THEN ParseResult(0, [ZeroWave EXCEPT !.header = Ptr(0)],
                     HeaderReadEnd(m, g), NoWalk)
    ELSE AfterWalk(m, g,
            WalkChunks(m, g, Big(SizeofRiffHeader),
                       BigAdd(Big(SizeofRiffHeader - 4), RdU32(m, g, 4)),
                       [format_chunk |-> NullPtr, data_chunk |-> NullPtr,
                        rdEnd |-> SizeofRiffHeader, trace |-> << >>,
                        cursor |-> Big(SizeofRiffHeader)]))

\* ------------------------------------------------------------- state
VARIABLES
    content,   \* the bytes of the file (what the stream or the buffer holds)
    size,      \* the size argument of the parsing / loading call
    longBits,  \* width of `long` in the build, 32 or 64; only the seeks of
               \* Wave_LoadStreamOnlyInfo depend on it, which fixes it on entry
    pc,        \* "idle", "loop" (inside Wave_LoadStreamOnlyInfo), "done", "crashed"
    op,        \* the call that produced the WAVE
    argsOk,    \* that call's pointer arguments were all non-null
    loadRet,   \* that call's return value
    wave,      \* the caller's WAVE
    store,     \* bytes of the block the WAVE points into
    garb,      \* pattern of the bytes of that block nobody wrote
    rdEnd,     \* one past the highest offset Wave_ParseBuffer read
    trace,     \* chunk headers the walker visited: [at, size]
    cursor,    \* the walker's cursor when its loop ended
    allocs,    \* number of blocks obtained from allocator->allocate
    freeLog,   \* the calls of allocator->free: [ptr, size]
    pos,       \* stream position (ftell)
    chunk,     \* the local RIFF_CHUNK of Wave_LoadStreamOnlyInfo, 8 bytes
    looped,    \* its chunk loop has run an iteration
    prevPos,   \* the stream position when the last iteration began
    lastHdr,   \* the last 'fmt ' and 'data' chunk headers it read whole from
               \* the stream: [valid, off, size], and n, how many of that
               \* id it read (counted up to 2)
    wrEnd,     \* one past the highest scratch offset it wrote
    last,      \* the last call made
    ret        \* and its return value

vars == << content, size, longBits, pc, op, argsOk, loadRet, wave, store, garb,
           rdEnd, trace, cursor, allocs, freeLog, pos, chunk, looped, prevPos,
           lastHdr, wrEnd, last, ret >>

inputs == << content, size >>
parseVars == << rdEnd, trace, cursor >>
infoVars == << pos, chunk, looped, prevPos, lastHdr, wrEnd >>

NoHdr == [valid |-> FALSE, off |-> 0, size |-> Big(0), n |-> 0]

\* sizeof(RIFF_HEADER) + sizeof(RIFF_CHUNK) * 2 + sizeof(WAVE_FORMAT)
ScratchSize == SizeofRiffHeader + SizeofRiffChunk * 2 + SizeofWaveFormat

Init ==
    /\ content \in InputFiles
    /\ size \in {Len(content), Len(content) + SizeSlack}
    /\ longBits = 64
    /\ pc = "idle"
    /\ op = "none"
    /\ argsOk = FALSE
    /\ loadRet = 0
    /\ wave = ZeroWave
    /\ store = << >>
    /\ garb = "zero"
    /\ rdEnd = 0
    /\ trace = << >>
    /\ cursor = Big(0)
    /\ allocs = 0
    /\ freeLog = << >>
    /\ pos = Big(0)
    /\ chunk = [i \in 1..SizeofRiffChunk |-> 0]
    /\ looped = FALSE
    /\ prevPos = Big(0)
    /\ lastHdr = [fmt |-> NoHdr, data |-> NoHdr]
    /\ wrEnd = 0
    /\ last = "none"
    /\ ret = 0

\* ------------------------------------------------- Wave_ParseBuffer call
\* The caller's buffer holds the file; when the size argument exceeds the
\* file, the rest of the buffer holds arbitrary bytes, as does the memory
\* after the buffer.
\* what a parsing call leaves behind
Returned(r, block, g, ok) ==
    /\ store' = block
    /\ garb' = g
    /\ wave' = r.wave
    /\ rdEnd' = r.rdEnd
    /\ trace' = r.trace
    /\ cursor' = r.cursor
    /\ argsOk' = ok
    /\ loadRet' = r.ret
    /\ ret' = r.ret

CallParseBuffer ==
    /\ pc = "idle"
    /\ \E buffOk \in BOOLEAN, waveOk \in BOOLEAN, g \in Garbage :
         /\ (buffOk /\ waveOk) \/ g = garb
         /\ Returned(Wave_ParseBuffer(buffOk, content, g, size, waveOk, wave),
                     IF buffOk /\ waveOk THEN content ELSE store,
                     g, buffOk /\ waveOk)
    /\ pc' = "done"
    /\ op' = "ParseBuffer"
    /\ last' = "ParseBuffer"
    /\ UNCHANGED << inputs, longBits, allocs, freeLog, infoVars >>

\* --------------------------------------------------- Wave_LoadStream call
\* fread(buff, 1, size, file): the bytes the stream has, at most size
StreamBytes(file, sz) == SubSeq(file, 1, Min(sz, Len(file)))

\* nblocks: blocks allocated before the call; the new block is nblocks + 1
Wave_LoadStream(fileOk, waveOk, g, w0, file, sz, nblocks) ==
    IF ~waveOk \/ ~fileOk
    THEN ParseResult(0, w0, 0, NoWalk)
    ELSE Wave_ParseBuffer(TRUE, StreamBytes(file, sz), g, sz, TRUE,
                          [w0 EXCEPT !.free_ptr = nblocks + 1,
                                     !.free_ptr_size = sz])

CallLoadStream ==
    /\ pc = "idle"
    /\ \E fileOk \in BOOLEAN, waveOk \in BOOLEAN, g \in Garbage :
         /\ (fileOk /\ waveOk) \/ g = garb
         /\ Returned(Wave_LoadStream(fileOk, waveOk, g, wave, content, size, allocs),
                     IF fileOk /\ waveOk THEN StreamBytes(content, size) ELSE store,
                     g, fileOk /\ waveOk)
         /\ allocs' = IF fileOk /\ waveOk THEN allocs + 1 ELSE allocs
         /\ pos' = IF fileOk /\ waveOk THEN Big(Min(size, Len(content))) ELSE pos
    /\ pc' = "done"
    /\ op' = "LoadStream"
    /\ last' = "LoadStream"
    /\ UNCHANGED << inputs, longBits, freeLog, chunk, looped, prevPos, lastHdr,
                    wrEnd >>

\* ------------------------------------------- Wave_LoadStreamOnlyInfo call
\* a - b for a >= b
BigSub(a, b) ==
    IF a.lo >= b.lo THEN [hi |-> a.hi - b.hi, lo |-> a.lo - b.lo]
    ELSE [hi |-> a.hi - b.hi - 1, lo |-> a.lo + Half - b.lo]

\* 2^32 - off, the magnitude of a 32-bit value read as a negative long
Neg32(off) ==
    IF off.lo = 0 THEN [hi |-> Half - off.hi, lo |-> 0]
    ELSE [hi |-> Half - 1 - off.hi, lo |-> Half - off.lo]

\* fseek(file, off, SEEK_CUR) from position p, off a uint32_t converted to
\* long.  With a 32-bit long a value of 2^31 or more is a negative offset; a
\* seek whose target is negative or not representable in long fails and
\* leaves the position where it was.  Seeking past the end is allowed.
Fseek(p, off, bits) ==
    IF bits = 32 /\ off.hi >= Half \div 2
    THEN LET mag == Neg32(off)
         IN  IF BigLeq(mag, p) THEN BigSub(p, mag) ELSE p
    ELSE LET t == BigAdd(p, off)
         IN  IF bits = 32 /\ t.hi >= Half \div 2 THEN p ELSE t

\* bytes the stream still holds at position p
Avail(file, p) == IF BigLt(p, Big(Len(file))) THEN Len(file) - Small(p) ELSE 0

\* block m with the n bytes of file at position p stored at offset o; bytes
\* that fall outside the block are not kept
StoreBytes(m, o, file, p, n) ==
    [i \in 1..Len(m) |->
        IF i > o /\ i <= o + n THEN file[p + (i - o)] ELSE m[i]]

\* the fields of the local chunk
ChunkId(c) == [hi |-> c[3] + 256 * c[4], lo |-> c[1] + 256 * c[2]]
ChunkSize(c) == [hi |-> c[7] + 256 * c[8], lo |-> c[5] + 256 * c[6]]

\* ftell(file) + sizeof(RIFF_CHUNK) <= size
LoopCond == BigLeq(BigAdd(pos, Big(SizeofRiffChunk)), Big(size))

\* Entry up to the chunk loop: the scratch block, the header read and its
\* validation.  The scratch block and the local chunk start uninitialised.
OnlyInfoBegin ==
    /\ pc = "idle"
    /\ \E fileOk \in BOOLEAN, waveOk \in BOOLEAN, g \in Garbage, lb \in {32, 64} :
         IF ~fileOk \/ ~waveOk
         THEN /\ g = garb
              /\ lb = longBits
              /\ pc' = "done"
              /\ argsOk' = FALSE
              /\ UNCHANGED << wave, store, garb, longBits, allocs, pos, chunk >>
         ELSE
           LET n == Min(SizeofRiffHeader, Len(content))
               scratch == [i \in 1..ScratchSize |->
                             IF i <= n THEN content[i] ELSE GByte(g, i - 1)]
               ok == Wave_ValidateHeader(RdU32(scratch, g, 0), RdU32(scratch, g, 8))
           IN  /\ wave' = [ZeroWave EXCEPT !.free_ptr_size = ScratchSize,
                                           !.free_ptr = allocs + 1,
                                           !.header = Ptr(0)]
               /\ allocs' = allocs + 1
               /\ store' = scratch
               /\ garb' = g
               /\ longBits' = lb
               /\ pos' = Big(n)
               /\ chunk' = [i \in 1..SizeofRiffChunk |-> GByte(g, i - 1)]
               /\ argsOk' = TRUE
               /\ pc' = IF ok = 0 THEN "done" ELSE "loop"
    /\ op' = "LoadStreamOnlyInfo"
    /\ last' = "LoadStreamOnlyInfo"
    /\ loadRet' = 0
    /\ ret' = 0
    /\ wrEnd' = IF allocs' = allocs THEN wrEnd
                ELSE Min(SizeofRiffHeader, Len(content))
    /\ UNCHANGED << inputs, parseVars, freeLog, looped, prevPos, lastHdr >>

\* the record of the headers read whole, after a read at position p
HeaderSeen(h, file, p) ==
    IF Avail(file, p) < SizeofRiffChunk THEN h
    ELSE IF RdU32(file, "zero", Small(p)) = WAVE_CHUNK_DATA
    THEN [h EXCEPT !.data = [valid |-> TRUE, off |-> Small(p),
                             size |-> RdU32(file, "zero", Small(p) + 4),
                             n |-> Min(h.data.n + 1, 2)]]
    ELSE IF RdU32(file, "zero", Small(p)) = WAVE_CHUNK_FORMAT
    THEN [h EXCEPT !.fmt = [valid |-> TRUE, off |-> Small(p),
                            size |-> RdU32(file, "zero", Small(p) + 4),
                            n |-> Min(h.fmt.n + 1, 2)]]
    ELSE h

\* One iteration of the chunk loop.
OnlyInfoIter ==
    /\ pc = "loop"
    /\ LoopCond
    /\ LET k == Min(SizeofRiffChunk, Avail(content, pos))
           \* fread(&chunk, sizeof(RIFF_CHUNK), 1, file)
           c == [i \in 1..SizeofRiffChunk |->
                   IF i <= k THEN content[Small(pos) + i] ELSE chunk[i]]
           p1 == BigAdd(pos, Big(k))
           ft == Small(p1)
           sz == ChunkSize(c)
           pad(p) == IF sz.lo % 2 # 0 THEN Fseek(p, Big(1), longBits) ELSE p
       IN
       /\ chunk' = c
       /\ IF ChunkId(c) = WAVE_CHUNK_DATA
          THEN /\ store' = [i \in 1..Len(store) |->
                              IF i > SizeofRiffHeader
                                 /\ i <= SizeofRiffHeader + SizeofRiffChunk
                              THEN c[i - SizeofRiffHeader] ELSE store[i]]
               /\ wave' = [wave EXCEPT
                             !.data_chunk = Ptr(SizeofRiffHeader),
                             !.data_chunk_offset = ft - SizeofRiffChunk,
                             !.sample_data_offset = ft,
                             !.sample_data_size = sz]
               /\ wrEnd' = Max(wrEnd, SizeofRiffHeader + SizeofRiffChunk)
               /\ pos' = pad(Fseek(p1, sz, longBits))
          ELSE IF ChunkId(c) = WAVE_CHUNK_FORMAT
          THEN LET fc == SizeofRiffHeader + SizeofRiffChunk
                   f == SizeofRiffHeader + SizeofRiffChunk * 2
                   av == Avail(content, p1)
                   \* fread(out_wave->format, 1, chunk.size, file)
                   n == IF BigLt(sz, Big(av)) THEN Small(sz) ELSE av
                   s1 == [i \in 1..Len(store) |->
                            IF i > fc /\ i <= fc + SizeofRiffChunk
                            THEN c[i - fc] ELSE store[i]]
               IN  /\ store' = StoreBytes(s1, f, content, ft, n)
                   /\ wave' = [wave EXCEPT
                                 !.format_chunk = Ptr(fc),
                                 !.format_chunk_offset = ft - SizeofRiffChunk,
                                 !.format = Ptr(f)]
                   /\ wrEnd' = Max(wrEnd, f + n)
                   /\ pos' = pad(BigAdd(p1, Big(n)))
          ELSE /\ pos' = pad(Fseek(p1, sz, longBits))
               /\ UNCHANGED << store, wave, wrEnd >>
    /\ looped' = TRUE
    /\ prevPos' = pos
    /\ lastHdr' = HeaderSeen(lastHdr, content, pos)
    /\ UNCHANGED << inputs, longBits, pc, op, argsOk, loadRet, garb, parseVars,
                    allocs, freeLog, last, ret >>

\* The loop condition fails: validate the format and return.
OnlyInfoEnd ==
    /\ pc = "loop"
    /\ ~LoopCond
    /\ LET r == Wave_ValidateFormat(wave.format.valid,
                                    FormatTag(store, garb, wave),
                                    BitsPerSample(store, garb, wave))
       IN  /\ loadRet' = r
           /\ ret' = r
    /\ pc' = "done"
    /\ UNCHANGED << inputs, longBits, op, argsOk, wave, store, garb, parseVars,
                    allocs, freeLog, infoVars, last >>

\* ------------------------------------------------------------ Wave_Free
\* Wave_Free without the clearing of the owning handle
FreeKeepingHandle(waveOk, w) ==
    IF ~waveOk THEN [ret |-> 0, wave |-> w, freed |-> << >>]
    ELSE IF w.free_ptr # 0
    THEN [ret |-> 1, wave |-> w,
          freed |-> << [ptr |-> w.free_ptr, size |-> w.free_ptr_size] >>]
    ELSE [ret |-> 0, wave |-> w, freed |-> << >>]

\* waveOk: the wave argument is non-null.  freed: the (ptr, size) pairs
\* handed to allocator->free by this call.
Wave_Free(waveOk, w) ==
    IF ~waveOk THEN [ret |-> 0, wave |-> w, freed |-> << >>]
    ELSE IF w.free_ptr # 0
    THEN [ret |-> 1,
          wave |-> [w EXCEPT !.free_ptr = 0, !.free_ptr_size = 0],
          freed |-> << [ptr |-> w.free_ptr, size |-> w.free_ptr_size] >>]
    ELSE [ret |-> 0, wave |-> w, freed |-> << >>]

CallFree ==
    /\ pc = "done"
    /\ \E waveOk \in BOOLEAN :
         /\ wave' = Wave_Free(waveOk, wave).wave
         /\ freeLog' = freeLog \o Wave_Free(waveOk, wave).freed
         /\ ret' = Wave_Free(waveOk, wave).ret
         /\ last' = IF waveOk THEN "Free" ELSE "Free(NULL)"
    /\ UNCHANGED << inputs, longBits, pc, op, argsOk, loadRet, store, garb,
                    parseVars, allocs, infoVars >>

\* --------------------------------------------------- Wave_GetSampleCount
\* Wave_GetSampleCount dividing by the bit depth instead of the byte width
SampleCountPerBit(waveOk, w, m, g) ==
    IF ~waveOk \/ ~w.format.valid THEN 0
    ELSE ToInt32(BigDivSmall(w.sample_data_size, BitsPerSample(m, g, w)))

\* (int)(wave->sample_data_size / (wave->format->bits_per_sample / 8)),
\* for a divisor that is not zero
Wave_GetSampleCount(waveOk, w, m, g) ==
    IF ~waveOk \/ ~w.format.valid THEN 0
    ELSE ToInt32(BigDivSmall(w.sample_data_size, BitsPerSample(m, g, w) \div 8))

\* The accessor is called while the block behind the WAVE is still
\* allocated; a zero divisor ends the program.
CallGetSampleCount ==
    /\ pc = "done"
    /\ freeLog = << >>
    /\ \E waveOk \in BOOLEAN :
         IF waveOk /\ wave.format.valid /\ BitsPerSample(store, garb, wave) \div 8 = 0
         THEN /\ pc' = "crashed"
              /\ ret' = 0
              /\ last' = "GetSampleCount"
         ELSE /\ pc' = pc
              /\ ret' = Wave_GetSampleCount(waveOk, wave, store, garb)
              /\ last' = IF waveOk THEN "GetSampleCount" ELSE "GetSampleCount(NULL)"
    /\ UNCHANGED << inputs, longBits, op, argsOk, loadRet, wave, store, garb,
                    parseVars, allocs, freeLog, infoVars >>

Next ==
    \/ CallParseBuffer
    \/ CallLoadStream
    \/ OnlyInfoBegin
    \/ OnlyInfoIter
    \/ OnlyInfoEnd
    \/ CallFree
    \/ CallGetSampleCount

Spec == Init /\ [][Next]_vars

\* ================================================================ claims

\* the acceptance table of the format validator
AcceptedFormat(tag, bits) ==
    \/ tag = 1 /\ bits \in {8, 16, 32}
    \/ tag = 3 /\ bits \in {32, 64}

\* indices of the visited chunk headers that carry the given id
Visited(id) ==
    { i \in 1..Len(trace) : RdU32(store, garb, Small(trace[i].at)) = id }

LastVisited(id) == CHOOSE i \in Visited(id) : \A j \in Visited(id) : j <= i

ParseBufferReturned == op = "ParseBuffer" /\ pc # "idle"

\* C1: Wave_ParseBuffer returns success if and only if its pointer arguments
\* are non-null, size > 0, the first 12 bytes carry the tags 'RIFF' and
\* 'WAVE', the walker visited a 'fmt ' chunk, and the format behind the last
\* one is PCM with 8, 16 or 32 bits or IEEE float with 32 or 64 bits; every
\* WAVE returned with success has its format pointer set to such a format.
C1_SuccessIffValid ==
    ParseBufferReturned =>
      /\ loadRet = 1 <=>
           /\ argsOk
           /\ size > 0
           /\ RdU32(store, garb, 0) = TagRIFF
           /\ RdU32(store, garb, 8) = TagWAVE
           /\ Visited(WAVE_CHUNK_FORMAT) # {}
           /\ LET f == Small(trace[LastVisited(WAVE_CHUNK_FORMAT)].at) + 8
              IN  AcceptedFormat(RdU16(store, garb, f), RdU16(store, garb, f + 14))
      /\ loadRet = 1 =>
           /\ wave.format.valid
           /\ AcceptedFormat(FormatTag(store, garb, wave),
                             BitsPerSample(store, garb, wave))

C1_Witness ==
    /\ ParseBufferReturned
    /\ loadRet = 1
    /\ FormatTag(store, garb, wave) = 3
    /\ BitsPerSample(store, garb, wave) = 32

\* C2: Wave_ParseBuffer never reads a byte at an offset >= size.
C2_NoReadPastSize == ParseBufferReturned => rdEnd <= size

\* C3: after Wave_LoadStream returned (file and out_wave non-null) the WAVE
\* holds the allocated block and the requested size as its owning handle,
\* until Wave_Free hands exactly that pointer and size to the allocator.
C3_LoadStreamKeepsHandle ==
    (op = "LoadStream" /\ pc # "idle" /\ argsOk) =>
       \/ wave.free_ptr = allocs /\ wave.free_ptr_size = size
       \/ freeLog = << [ptr |-> allocs, size |-> size] >>

\* C4: when Wave_ParseBuffer returned success and found a 'data' chunk,
\* sample_data_offset + sample_data_size <= size.
C4_SampleRegionInBuffer ==
    (ParseBufferReturned /\ loadRet = 1 /\ wave.data_chunk.valid) =>
       BigLeq(BigAdd(Big(wave.sample_data_offset), wave.sample_data_size),
              Big(size))

\* C5: over any sequence of Wave_Free calls on the WAVE the allocator's free
\* is invoked at most once; a call invokes it with the stored free_ptr and
\* free_ptr_size, clears the handle and returns 1 exactly when the handle
\* was non-null, and otherwise returns 0 and leaves the WAVE and the
\* allocator alone; a WAVE that Wave_ParseBuffer produced never reaches free.
C5_FreeAtMostOnce ==
    /\ [](Len(freeLog) <= 1)
    /\ []((op = "ParseBuffer" /\ argsOk) => wave.free_ptr = 0 /\ freeLog = << >>)
    /\ [][ last' = "Free" =>
             IF wave.free_ptr # 0
             THEN /\ ret' = 1
                  /\ wave'.free_ptr = 0
                  /\ freeLog' = Append(freeLog, [ptr |-> wave.free_ptr,
                                                 size |-> wave.free_ptr_size])
             ELSE /\ ret' = 0
                  /\ wave' = wave
                  /\ freeLog' = freeLog ]_vars

\* a second Wave_Free after one that released the block
C5_Witness == last = "Free" /\ ret = 0 /\ Len(freeLog) = 1

\* the first n bytes behind the WAVE's format pointer are the n bytes of the
\* file at offset o
FormatIsFileAt(o, n) ==
    \A i \in 0..(n - 1) :
        Rd(store, garb, wave.format.off + i) = Rd(content, "zero", o + i)

InfoReturned == op = "LoadStreamOnlyInfo" /\ pc \in {"done", "crashed"}

\* several chunks of one id among those visited
SeveralVisited ==
    \/ Cardinality(Visited(WAVE_CHUNK_FORMAT)) >= 2
    \/ Cardinality(Visited(WAVE_CHUNK_DATA)) >= 2

\* C6: when the walked region holds several 'fmt ' or several 'data' chunks,
\* the WAVE that Wave_ParseBuffer, and likewise Wave_LoadStreamOnlyInfo,
\* returns with success describes the last 'fmt ' and the last 'data' chunk
\* header of the region: the chunk offsets are those headers' offsets,
\* format is the payload of the last 'fmt ' chunk, sample_data_offset is the
\* last 'data' header offset + 8 and sample_data_size that header's size
\* field.
C6_LastOccurrenceWins ==
    /\ (ParseBufferReturned /\ loadRet = 1 /\ SeveralVisited) =>
         /\ wave.format_chunk_offset = Small(trace[LastVisited(WAVE_CHUNK_FORMAT)].at)
         /\ wave.format.off = wave.format_chunk_offset + 8
         /\ wave.data_chunk.valid <=> Visited(WAVE_CHUNK_DATA) # {}
         /\ wave.data_chunk.valid =>
              /\ wave.data_chunk_offset = Small(trace[LastVisited(WAVE_CHUNK_DATA)].at)
              /\ wave.sample_data_offset = wave.data_chunk_offset + 8
              /\ wave.sample_data_size = trace[LastVisited(WAVE_CHUNK_DATA)].size
    /\ (InfoReturned /\ loadRet = 1 /\ (lastHdr.fmt.n >= 2 \/ lastHdr.data.n >= 2)) =>
         /\ lastHdr.fmt.valid
         /\ wave.format_chunk_offset = lastHdr.fmt.off
         /\ FormatIsFileAt(lastHdr.fmt.off + 8,
               Min(Avail(content, Big(lastHdr.fmt.off + 8)),
                   IF BigLt(lastHdr.fmt.size, Big(16))
                   THEN Small(lastHdr.fmt.size) ELSE 16))
         /\ wave.data_chunk.valid <=> lastHdr.data.valid
         /\ wave.data_chunk.valid =>
              /\ wave.data_chunk_offset = lastHdr.data.off
              /\ wave.sample_data_offset = lastHdr.data.off + 8
              /\ wave.sample_data_size = lastHdr.data.size

\* the cursor after the i-th visited chunk
CursorAfter(i) == IF i < Len(trace) THEN trace[i + 1].at ELSE cursor

\* C7: for every visited chunk header with size field s the walker's cursor
\* advances by exactly 8 + s + (s & 1), with no 32-bit wrap-around.
C7_AdvanceExact ==
    \A i \in 1..Len(trace) :
        CursorAfter(i) =
            BigAdd(BigAdd(trace[i].at, Big(8)),
                   BigAdd(trace[i].size, Big(trace[i].size.lo % 2)))

\* bytes per sample of the WAVE: bits_per_sample / 8
SampleWidth == BitsPerSample(store, garb, wave) \div 8

CountReturned == last = "GetSampleCount" /\ pc = "done" /\ loadRet = 1

\* C8: for every accepted input
\* Wave_GetSampleCount(wave) * (bits_per_sample / 8) == sample_data_size.
C8_CountTimesWidth ==
    CountReturned =>
       /\ ret >= 0
       /\ BigMulSmall(Big(ret), SampleWidth) = wave.sample_data_size

\* the unsigned 32-bit value with the bits of the int r
Unsigned(r) ==
    IF r >= 0 THEN Big(r)
    ELSE [hi |-> (Half - 1) - ((-(r + 1)) \div Half),
          lo |-> (Half - 1) - ((-(r + 1)) % Half)]

\* C8 as amended: for every accepted input Wave_GetSampleCount(wave) is the
\* quotient sample_data_size / (bits_per_sample / 8) rounded down and
\* converted to int, so that count * (bits_per_sample / 8), with count read
\* as unsigned, is sample_data_size less the remainder
\* sample_data_size mod (bits_per_sample / 8); the count is negative exactly
\* when the quotient exceeds the int range.
C8_CountIsQuotient ==
    CountReturned =>
       /\ BigAdd(BigMulSmall(Unsigned(ret), SampleWidth),
                 Big(BigModSmall(wave.sample_data_size, SampleWidth)))
            = wave.sample_data_size
       /\ ret < 0 <=>
            BigDivSmall(wave.sample_data_size, SampleWidth).hi >= Half \div 2

\* a data size that is not a multiple of the sample width
C8_Witness ==
    /\ CountReturned
    /\ SampleWidth = 4
    /\ wave.sample_data_size = Big(3)
    /\ ret = 0

\* C9: Wave_LoadStreamOnlyInfo writes only inside its scratch block of
\* sizeof(RIFF_HEADER) + 2 * sizeof(RIFF_CHUNK) + sizeof(WAVE_FORMAT) bytes.
C9_WritesInsideScratch == op = "LoadStreamOnlyInfo" => wrEnd <= ScratchSize

\* C10: the chunk loop of Wave_LoadStreamOnlyInfo terminates: every
\* iteration leaves the stream position strictly after the position it
\* began at.  (An iteration that does not is repeated for ever: it starts
\* from a position and a local chunk it has already started from.)
C10_LoopAdvances ==
    (op = "LoadStreamOnlyInfo" /\ looped) => BigLt(prevPos, pos)

====
